---- MODULE Spec2Model ----
(***************************************************************************)
(* Model of the 2D heat-equation mini-apps: the tiled sender pipeline      *)
(* (src/unnamed/part_002), and the boundary fill shared by the variants    *)
(* (src/apps/heat-equation/heat-equation-stdpar-senders.cpp).              *)
(*                                                                         *)
(* Buffers are flat row-major arrays as in the code (mdspan layout_right). *)
(* Real_t values are modelled in fixed point by integers.  new Real_t[n]   *)
(* does not initialise its elements: what an allocation holds before it   *)
(* is written, and what lies behind it, is chosen from Garbage once per    *)
(* run.  A write outside a buffer leaves both buffers alone and raises ub. *)
(*                                                                         *)
(* One action is one unit of work handed to the pool: a bulk lambda called *)
(* for one tile, one iteration of a boundary-fill loop, a then-stage.  The *)
(* units of a phase run in every order.                                    *)
(***************************************************************************)
EXTENDS Integers, FiniteSets, Sequences, TLC

\* ---- bounds of the model ----
MaxCells == 3
MaxTiles == 5
MaxSteps == 2
MaxSeed == 3
MaxGarbage == 1
ValMod == 7

\* ---- program constants ----
dims == 2
ghost_cells == 1
nghosts == ghost_cells * dims

\* fixed-point stand-ins for the floating point coefficients
PhiScale == 16
Dx2 == 4
Garbage == 0 .. MaxGarbage

VARIABLES variant,                  \* which program runs: "tiled", "stdpar", "snd" or "omp"
          ncells, nsteps, ntiles,   \* parsed parameters (ntiles is nthreads in the OpenMP variant)
          printed,                  \* what printGrid has written: the initial and the final grid
          step_in,                  \* both buffers as they were when the current step began
          junk,                     \* what uninitialised memory holds: junk.old, junk.new
          grid_old, grid_new,       \* the two buffers
          time, step,               \* simulation time (in units of dt), loop counter
          dpc,                      \* position of the driver thread (main)
          stage,                    \* stage of the pipeline being executed
          units,                    \* per bulk phase, per tile: whether the tile unit has run, and its locals
          fillTodo,                 \* iterations of the current boundary-fill loop still to run
          wrote,                    \* cells written so far in the current parallel phase, with their writer
          ub,                       \* an out-of-range access has happened
          evolve,                   \* the static sender evolve: the step that constructed it, how often it was moved from
          cornerLog,                \* per corner cell of old, the values stored in it by the current boundary fill, in order
          tally                     \* boundary fills, stencil units and copy-back units completed so far

vars == <<variant, ncells, nsteps, ntiles, junk, printed, step_in, grid_old, grid_new, time, step, dpc, stage,
          units, fillTodo, wrote, ub, evolve, cornerLog, tally>>

\* ---- geometry ----
len == ncells + nghosts
total == ncells * ncells

OldOff(i, j) == i * (ncells + nghosts) + j
NewOff(i, j) == i * ncells + j

Read(g, off, behind) == IF off \in DOMAIN g THEN g[off] ELSE behind
Write(g, off, v) == IF off \in DOMAIN g THEN [g EXCEPT ![off] = v] ELSE g

\* ---- tile bounds, as computed in each bulk lambda ----
\* int start = tile * (ncells * ncells) / ntiles;
TileStart(tile, nt) == (tile * (ncells * ncells)) \div nt
\* int remaining = (ncells * ncells) % ntiles;
Remaining(nt) == (ncells * ncells) % nt
\* (variant: the remainder added to every tile)
TileSize_RemainderEverywhere(tile, nt) == ((ncells * ncells) \div nt) + Remaining(nt)
\* int size = (ncells * ncells) / ntiles;  size += (tile == ntiles - 1) ? remaining : 0;
TileSize(tile, nt) == ((ncells * ncells) \div nt) + (IF tile = nt - 1 THEN Remaining(nt) ELSE 0)

\* bulk(ntiles, f) calls f(tile) for tile = 0 .. ntiles - 1
Tiles == 0 .. (ntiles - 1)
Phases == {"init", "stencil", "copy"}
FreshUnit == [st |-> "pending", start |-> 0, size |-> 0, runs |-> 0]
FreshUnits == [ph \in Phases |-> [t \in Tiles |-> FreshUnit]]

\* ---- kernels ----
\* phi(x,y) = 1 + exp(-r2), r2 the scaled squared distance of cell (i,j) from the origin
PhiInit(i, j) ==
  LET x2 == 2 * (i - ghost_cells) - (ncells - 1)
      y2 == 2 * (j - ghost_cells) - (ncells - 1)
      r2 == x2 * x2 + y2 * y2
  IN  PhiScale + (PhiScale \div (1 + r2))

\* the Jacobi update of one cell from its five stencil points
Jacobi(c, dn, up, rt, lf) ==
  c + (((dn - 2 * c + up) \div Dx2) + ((rt - 2 * c + lf) \div Dx2))

RowOf(pos) == 1 + (pos \div ncells)
ColOf(pos) == 1 + (pos % ncells)

\* body of the initialisation lambda for one flat index
InitCell(g_old, pos) == Write(g_old, OldOff(RowOf(pos), ColOf(pos)), PhiInit(RowOf(pos), ColOf(pos)))
InitOOB(pos) == OldOff(RowOf(pos), ColOf(pos)) \notin DOMAIN grid_old

\* body of the stencil lambda for one flat index
StencilReads(pos) ==
  LET i == RowOf(pos)
      j == ColOf(pos)
  IN  {OldOff(i, j), OldOff(i + 1, j), OldOff(i - 1, j), OldOff(i, j + 1), OldOff(i, j - 1)}
\* (variant: the left neighbour taken one row up)
StencilCell_Diagonal(g_old, g_new, pos) ==
  LET i == RowOf(pos)
      j == ColOf(pos)
  IN  Write(g_new, NewOff(i - 1, j - 1),
            Jacobi(Read(g_old, OldOff(i, j), junk.old), Read(g_old, OldOff(i + 1, j), junk.old),
                   Read(g_old, OldOff(i - 1, j), junk.old), Read(g_old, OldOff(i, j + 1), junk.old),
                   Read(g_old, OldOff(i - 1, j - 1), junk.old)))
StencilCell(g_old, g_new, pos) ==
  LET i == RowOf(pos)
      j == ColOf(pos)
  IN  Write(g_new, NewOff(i - 1, j - 1),
            Jacobi(Read(g_old, OldOff(i, j), junk.old), Read(g_old, OldOff(i + 1, j), junk.old),
                   Read(g_old, OldOff(i - 1, j), junk.old), Read(g_old, OldOff(i, j + 1), junk.old),
                   Read(g_old, OldOff(i, j - 1), junk.old)))
StencilOOB(pos) ==
  \/ NewOff(RowOf(pos) - 1, ColOf(pos) - 1) \notin DOMAIN grid_new
  \/ \E off \in StencilReads(pos) : off \notin DOMAIN grid_old

\* body of the copy-back lambda for one flat index
CopyCell(g_old, g_new, pos) ==
  LET i == RowOf(pos)
      j == ColOf(pos)
  IN  Write(g_old, OldOff(i, j), Read(g_new, NewOff(i - 1, j - 1), junk.new))
CopyOOB(pos) ==
  \/ OldOff(RowOf(pos), ColOf(pos)) \notin DOMAIN grid_old
  \/ NewOff(RowOf(pos) - 1, ColOf(pos) - 1) \notin DOMAIN grid_new

\* std::for_each_n(par_unseq, counting_iterator(start), size, f): f on each of the size indices
RECURSIVE InitRun(_, _, _)
InitRun(g_old, start, size) ==
  IF size = 0 THEN g_old
  ELSE InitRun(InitCell(g_old, start), start + 1, size - 1)

RECURSIVE StencilRun(_, _, _, _)
StencilRun(g_old, g_new, start, size) ==
  IF size = 0 THEN g_new
  ELSE StencilRun(g_old, StencilCell(g_old, g_new, start), start + 1, size - 1)

RECURSIVE CopyRun(_, _, _, _)
CopyRun(g_old, g_new, start, size) ==
  IF size = 0 THEN g_old
  ELSE CopyRun(CopyCell(g_old, g_new, start), g_new, start + 1, size - 1)

\* printGrid(grid, n): one line per j, on it view(i, j) for every i
PrintGrid(g, n) == [j \in 1 .. n |-> [i \in 1 .. n |-> g[(i - 1) * n + (j - 1)]]]

\* ---- fill2Dboundaries(grid, len, ghost_cells) ----
\* (variant: both loops start at index 0)
FillRange_FromZero == 0 .. (len - 1)
\* counting_iterator(ghost_cells), len - ghost_cells
FillRange == ghost_cells .. (ghost_cells + (len - ghost_cells) - 1)

FillRows(g, i) ==
  LET g1 == [g EXCEPT ![i] = g[i + (ghost_cells * len)]]
  IN  [g1 EXCEPT ![i + (len * (len - ghost_cells))] = g1[i + (len * (len - ghost_cells - 1))]]
FillRowsWrites(i) == {i, i + (len * (len - ghost_cells))}

FillCols(g, j) ==
  LET g1 == [g EXCEPT ![j * len] = g[(ghost_cells * len) + j]]
  IN  [g1 EXCEPT ![(len - ghost_cells) + (len * j)] = g1[(len - ghost_cells - 1) + (len * j)]]
FillColsWrites(j) == {j * len, (len - ghost_cells) + (len * j)}

\* ---- fill2Dboundaries_omp(grid, len, nthreads, ghost_cells): body of one iteration ----
FillOmpRange(gc) == gc .. (len - gc - 1)
FillOmp(g, i, gc) ==
  LET g1 == [g EXCEPT ![i] = g[i + (gc * len)]]
      g2 == [g1 EXCEPT ![i + (len * (len - gc))] = g1[i + (len * (len - gc - 1))]]
      g3 == [g2 EXCEPT ![i * len] = g2[(gc * len) + i]]
  IN  [g3 EXCEPT ![(len - gc) + (len * i)] = g3[(len - gc - 1) + (len * i)]]
FillOmpWrites(i, gc) == {i, i + (len * (len - gc)), i * len, (len - gc) + (len * i)}
\* fill2Dboundaries_omp(grid_old, ncells + nghosts, ghost_cells, nthreads) in the
\* time loop: against the signature (grid, len, nthreads, ghost_cells) the
\* function's ghost_cells is the thread count of the run
OmpGhostArg == ntiles

\* fill2Dboundaries with the iterations of each loop taken in index order
RECURSIVE FillRowsFrom(_, _)
FillRowsFrom(g, i) == IF i \notin FillRange THEN g ELSE FillRowsFrom(FillRows(g, i), i + 1)
RECURSIVE FillColsFrom(_, _)
FillColsFrom(g, j) == IF j \notin FillRange THEN g ELSE FillColsFrom(FillCols(g, j), j + 1)
fill2Dboundaries(g) == FillColsFrom(FillRowsFrom(g, ghost_cells), ghost_cells)

\* the corner cells of the haloed buffer, and the record of what a boundary
\* fill stores in them: written offsets are taken in statement order
Corners == {OldOff(0, 0), OldOff(0, len - 1), OldOff(len - 1, 0), OldOff(len - 1, len - 1)}
NoCornerWrites == [c \in Corners |-> <<>>]
RECURSIVE LogWrites(_, _, _)
LogWrites(log, offs, g) ==
  IF offs = <<>> THEN log
  ELSE LogWrites(IF Head(offs) \in DOMAIN log
                   THEN [log EXCEPT ![Head(offs)] = Append(@, g[Head(offs)])]
                   ELSE log,
                 Tail(offs), g)

\* ---- sender pipeline ----
\* static sender auto evolve: not constructed before the first pass of the loop body
NoEvolve == [made |-> -1, moves |-> 0]
\* the declaration constructs the object on the first pass only;
\* sync_wait(std::move(evolve)) moves from it on every pass
MovedEvolve(ev, st) == [made |-> (IF ev.made = -1 THEN st ELSE ev.made), moves |-> ev.moves + 1]
\* (variant: a bulk sender that completes with its first unit)
AllDone_SomeDone(ph) == \E t \in Tiles : units[ph][t].st = "done"
\* a bulk sender completes when every one of its units has returned
AllDone(ph) == \A t \in Tiles : units[ph][t].st = "done"
\* (variant: the driver goes on as soon as the pipeline has been started)
PipelineComplete_NoWait == stage # "idle"
\* sync_wait returns when the whole pipeline has completed
PipelineComplete == stage = "complete"

Init ==
  /\ variant = "tiled"
  /\ printed = [initial |-> <<>>, final |-> <<>>]
  /\ ncells \in 1 .. MaxCells
  /\ ntiles \in 1 .. MaxTiles
  /\ nsteps \in 0 .. MaxSteps
  /\ junk \in [old : Garbage, new : Garbage]
  /\ grid_old = [k \in 0 .. ((ncells + nghosts) * (ncells + nghosts) - 1) |-> junk.old]
  /\ grid_new = [k \in 0 .. (ncells * ncells - 1) |-> junk.new]
  /\ step_in = [old |-> grid_old, new |-> grid_new]
  /\ time = 0
  /\ step = 0
  /\ dpc = "start"
  /\ stage = "idle"
  /\ units = FreshUnits
  /\ fillTodo = {}
  /\ wrote = {}
  /\ ub = FALSE
  /\ evolve = NoEvolve
  /\ cornerLog = NoCornerWrites
  /\ tally = [fills |-> 0, stencil |-> 0, copy |-> 0]

\* sync_wait(std::move(heat_eq_init)): the driver starts the pipeline and blocks
StartInit ==
  /\ dpc = "start"
  /\ dpc' = "wait_init"
  /\ stage' = "init"
  /\ units' = FreshUnits
  /\ wrote' = {}
  /\ UNCHANGED <<variant, ncells, nsteps, ntiles, junk, evolve, cornerLog, tally, printed, step_in, grid_old, grid_new, time, step, fillTodo, ub>>

\* (variant: a unit of the step pipeline that has returned is handed out again)
Ran_StaysPending(ph, t) == [st |-> (IF ph = "init" THEN "done" ELSE "pending"),
                            start |-> TileStart(t, ntiles), size |-> TileSize(t, ntiles),
                            runs |-> units[ph][t].runs + 1]
\* a tile unit after its bulk lambda has run: its locals start and size
Ran(ph, t) == [st |-> "done", start |-> TileStart(t, ntiles), size |-> TileSize(t, ntiles),
               runs |-> units[ph][t].runs + 1]
\* the flat indices the tile's for_each_n visits
TilePositions(t) == TileStart(t, ntiles) .. (TileStart(t, ntiles) + TileSize(t, ntiles) - 1)

\* a pool thread runs the init lambda for one tile
InitTile(t) ==
  /\ stage = "init"
  /\ units["init"][t].st = "pending"
  /\ grid_old' = InitRun(grid_old, TileStart(t, ntiles), TileSize(t, ntiles))
  /\ wrote' = wrote \cup {<<"old", OldOff(RowOf(pos), ColOf(pos)), t>> : pos \in TilePositions(t)}
  /\ ub' = (ub \/ \E pos \in TilePositions(t) : InitOOB(pos))
  /\ units' = [units EXCEPT !["init"][t] = Ran("init", t)]
  /\ UNCHANGED <<variant, ncells, nsteps, ntiles, junk, evolve, cornerLog, tally, printed, step_in, grid_new, time, step, dpc, stage, fillTodo>>

\* a pool thread runs the stencil lambda for one tile
StencilTile(t) ==
  /\ stage = "stencil"
  /\ units["stencil"][t].st = "pending"
  /\ grid_new' = StencilRun(grid_old, grid_new, TileStart(t, ntiles), TileSize(t, ntiles))
  /\ wrote' = wrote \cup {<<"new", NewOff(RowOf(pos) - 1, ColOf(pos) - 1), t>> : pos \in TilePositions(t)}
  /\ ub' = (ub \/ \E pos \in TilePositions(t) : StencilOOB(pos))
  /\ units' = [units EXCEPT !["stencil"][t] = Ran("stencil", t)]
  /\ tally' = [tally EXCEPT !.stencil = @ + 1]
  /\ UNCHANGED <<variant, ncells, nsteps, ntiles, junk, evolve, cornerLog, printed, step_in, grid_old, time, step, dpc, stage, fillTodo>>

\* a pool thread runs the copy-back lambda for one tile
CopyTile(t) ==
  /\ stage = "copy"
  /\ units["copy"][t].st = "pending"
  /\ grid_old' = CopyRun(grid_old, grid_new, TileStart(t, ntiles), TileSize(t, ntiles))
  /\ wrote' = wrote \cup {<<"old", OldOff(RowOf(pos), ColOf(pos)), t>> : pos \in TilePositions(t)}
  /\ ub' = (ub \/ \E pos \in TilePositions(t) : CopyOOB(pos))
  /\ units' = [units EXCEPT !["copy"][t] = Ran("copy", t)]
  /\ tally' = [tally EXCEPT !.copy = @ + 1]
  /\ UNCHANGED <<variant, ncells, nsteps, ntiles, junk, evolve, cornerLog, printed, step_in, grid_new, time, step, dpc, stage, fillTodo>>

\* then([&]{ if (print_grid) printGrid(grid_old) }) after the init bulk
InitThen ==
  /\ stage = "init"
  /\ AllDone("init")
  /\ stage' = "complete"
  /\ printed' = [printed EXCEPT !.initial = PrintGrid(grid_old, ncells + nghosts)]
  /\ wrote' = {}
  /\ UNCHANGED <<variant, ncells, nsteps, ntiles, junk, evolve, cornerLog, tally, step_in, grid_old, grid_new, time, step, dpc, units, fillTodo, ub>>

\* sync_wait returns to the driver
InitReturn ==
  /\ dpc = "wait_init"
  /\ PipelineComplete
  /\ dpc' = "loop"
  /\ stage' = "idle"
  /\ UNCHANGED <<variant, ncells, nsteps, ntiles, junk, evolve, cornerLog, tally, printed, step_in, grid_old, grid_new, time, step, units, fillTodo, wrote, ub>>

\* for (step = 0; step < nsteps; step++) sync_wait(std::move(evolve))
LoopTest ==
  /\ dpc = "loop"
  /\ IF step < nsteps
       THEN /\ dpc' = "wait_evolve"
            /\ stage' = "fill_rows"
            /\ units' = FreshUnits
            /\ fillTodo' = FillRange
            /\ step_in' = [old |-> grid_old, new |-> grid_new]
            /\ evolve' = MovedEvolve(evolve, step)
            /\ cornerLog' = NoCornerWrites
            /\ wrote' = {}
       ELSE /\ dpc' = "finalize"
            /\ UNCHANGED <<stage, units, fillTodo, step_in, wrote, evolve, cornerLog>>
  /\ UNCHANGED <<variant, ncells, nsteps, ntiles, junk, tally, printed, grid_old, grid_new, time, step, ub>>

\* one iteration of the first loop of fill2Dboundaries (top and bottom ghost rows)
FillRowsIter(i) ==
  /\ stage = "fill_rows"
  /\ i \in fillTodo
  /\ grid_old' = FillRows(grid_old, i)
  /\ fillTodo' = fillTodo \ {i}
  /\ wrote' = wrote \cup {<<"old", off, i>> : off \in FillRowsWrites(i)}
  /\ cornerLog' = LogWrites(cornerLog, <<i, i + (len * (len - ghost_cells))>>, grid_old')
  /\ UNCHANGED <<variant, ncells, nsteps, ntiles, junk, evolve, tally, printed, step_in, grid_new, time, step, dpc, stage, units, ub>>

FillRowsDone ==
  /\ stage = "fill_rows"
  /\ fillTodo = {}
  /\ stage' = "fill_cols"
  /\ fillTodo' = FillRange
  /\ wrote' = {}
  /\ UNCHANGED <<variant, ncells, nsteps, ntiles, junk, evolve, cornerLog, tally, printed, step_in, grid_old, grid_new, time, step, dpc, units, ub>>

\* one iteration of the second loop of fill2Dboundaries (left and right ghost columns)
FillColsIter(j) ==
  /\ stage = "fill_cols"
  /\ j \in fillTodo
  /\ grid_old' = FillCols(grid_old, j)
  /\ fillTodo' = fillTodo \ {j}
  /\ wrote' = wrote \cup {<<"old", off, j>> : off \in FillColsWrites(j)}
  /\ cornerLog' = LogWrites(cornerLog, <<j * len, (len - ghost_cells) + (len * j)>>, grid_old')
  /\ UNCHANGED <<variant, ncells, nsteps, ntiles, junk, evolve, tally, printed, step_in, grid_new, time, step, dpc, stage, units, ub>>

\* fill2Dboundaries returns; the then-stage completes and the stencil bulk starts
FillDone ==
  /\ stage = "fill_cols"
  /\ fillTodo = {}
  /\ stage' = (IF variant = "tiled" THEN "stencil" ELSE "seq_stencil")
  /\ wrote' = {}
  /\ tally' = [tally EXCEPT !.fills = @ + 1]
  /\ UNCHANGED <<variant, ncells, nsteps, ntiles, junk, evolve, cornerLog, printed, step_in, grid_old, grid_new, time, step, dpc, units, fillTodo, ub>>

\* the stencil bulk completes and the copy-back bulk starts
StencilDone ==
  /\ stage = "stencil"
  /\ AllDone("stencil")
  /\ stage' = "copy"
  /\ wrote' = {}
  /\ UNCHANGED <<variant, ncells, nsteps, ntiles, junk, evolve, cornerLog, tally, printed, step_in, grid_old, grid_new, time, step, dpc, units, fillTodo, ub>>

\* the copy-back bulk completes and the last then-stage is scheduled
CopyDone ==
  /\ stage = "copy"
  /\ AllDone("copy")
  /\ stage' = "advance"
  /\ wrote' = {}
  /\ UNCHANGED <<variant, ncells, nsteps, ntiles, junk, evolve, cornerLog, tally, printed, step_in, grid_old, grid_new, time, step, dpc, units, fillTodo, ub>>

\* then([&]{ time += dt; })
TimeAdvance ==
  /\ stage = "advance"
  /\ time' = time + 1
  /\ stage' = "complete"
  /\ UNCHANGED <<variant, ncells, nsteps, ntiles, junk, evolve, cornerLog, tally, printed, step_in, grid_old, grid_new, step, dpc, units, fillTodo, wrote, ub>>

\* (variant: the driver advances the time when the pipeline has returned)
EvolveReturn_AdvancesTime ==
  /\ dpc = "wait_evolve"
  /\ PipelineComplete
  /\ dpc' = "loop"
  /\ step' = step + 1
  /\ time' = time + 1
  /\ stage' = "idle"
  /\ UNCHANGED <<variant, ncells, nsteps, ntiles, junk, evolve, cornerLog, tally, printed, step_in, grid_old, grid_new, units, fillTodo, wrote, ub>>
\* sync_wait(std::move(evolve)) returns; step++
EvolveReturn ==
  /\ dpc = "wait_evolve"
  /\ PipelineComplete
  /\ dpc' = "loop"
  /\ step' = step + 1
  /\ stage' = "idle"
  /\ UNCHANGED <<variant, ncells, nsteps, ntiles, junk, evolve, cornerLog, tally, printed, step_in, grid_old, grid_new, time, units, fillTodo, wrote, ub>>

\* sync_wait(std::move(finalize)): print the final grid, delete the buffers
Finalize ==
  /\ dpc = "finalize"
  /\ dpc' = "done"
  /\ printed' = [printed EXCEPT !.final = PrintGrid(grid_new, ncells)]
  /\ UNCHANGED <<variant, ncells, nsteps, ntiles, junk, evolve, cornerLog, tally, step_in, grid_old, grid_new, time, step, stage, units, fillTodo, wrote, ub>>

\* an access outside a buffer has undefined behaviour: the run may go on, as
\* the tile actions have it, or the process may be ended at any later point (a
\* fault, or the allocator aborting on the damaged heap)
Crash ==
  /\ ub
  /\ dpc \notin {"done", "crashed"}
  /\ dpc' = "crashed"
  /\ stage' = "idle"
  /\ UNCHANGED <<variant, ncells, nsteps, ntiles, junk, evolve, cornerLog, tally, printed, step_in, grid_old, grid_new, time, step, units, fillTodo, wrote, ub>>

Next ==
  \/ StartInit
  \/ \E t \in Tiles : InitTile(t)
  \/ \E t \in Tiles : StencilTile(t)
  \/ \E t \in Tiles : CopyTile(t)
  \/ InitThen
  \/ InitReturn
  \/ LoopTest
  \/ \E i \in FillRange : FillRowsIter(i)
  \/ FillRowsDone
  \/ \E j \in FillRange : FillColsIter(j)
  \/ FillDone
  \/ StencilDone
  \/ CopyDone
  \/ TimeAdvance
  \/ EvolveReturn
  \/ Finalize
  \/ Crash

Spec == Init /\ [][Next]_vars

\* the operating system schedules the driver and the pool threads fairly: a
\* step of the program that stays possible is eventually taken; nothing
\* obliges a run to be ended
Run == Next /\ dpc' # "crashed"
FairSpec == Spec /\ WF_vars(Run)

\* ---- the boundary fill on its own, applied to a haloed buffer of any content ----
FillContent(m) == [k \in 0 .. ((ncells + nghosts) * (ncells + nghosts) - 1) |-> (m * k) % ValMod]

FillInit ==
  /\ printed = [initial |-> <<>>, final |-> <<>>]
  /\ ncells \in 1 .. MaxCells
  /\ ntiles = 1
  /\ nsteps = 1
  /\ junk = [old |-> 0, new |-> 0]
  /\ \E m \in 1 .. MaxSeed : grid_old = FillContent(m)
  /\ grid_new = [k \in 0 .. (ncells * ncells - 1) |-> 0]
  /\ step_in = [old |-> grid_old, new |-> grid_new]
  /\ time = 0
  /\ step = 0
  /\ dpc = "wait_evolve"
  /\ \/ variant = "tiled" /\ stage = "fill_rows" /\ fillTodo = FillRange
     \/ variant = "omp" /\ stage = "fill_omp" /\ fillTodo = FillOmpRange(OmpGhostArg)
  /\ units = FreshUnits
  /\ wrote = {}
  /\ ub = FALSE
  /\ evolve = NoEvolve
  /\ cornerLog = NoCornerWrites
  /\ tally = [fills |-> 0, stencil |-> 0, copy |-> 0]

\* one iteration of the parallel for of fill2Dboundaries_omp, as the time loop
\* calls it: the depth it works with is the fourth argument of the call, and
\* num_threads gets the third, ghost_cells = 1, so one thread takes the
\* iterations in index order
FillOmpIter(i) ==
  /\ stage = "fill_omp"
  /\ i \in fillTodo
  /\ \A k \in fillTodo : i <= k
  /\ grid_old' = FillOmp(grid_old, i, OmpGhostArg)
  /\ fillTodo' = fillTodo \ {i}
  /\ wrote' = wrote \cup {<<"old", off, i>> : off \in FillOmpWrites(i, OmpGhostArg)}
  /\ cornerLog' = LogWrites(cornerLog, <<i, i + (len * (len - OmpGhostArg)), i * len,
                                        (len - OmpGhostArg) + (len * i)>>, grid_old')
  /\ UNCHANGED <<variant, ncells, nsteps, ntiles, junk, evolve, tally, printed, step_in, grid_new, time, step, dpc, stage, units, ub>>

FillOmpDone ==
  /\ stage = "fill_omp"
  /\ fillTodo = {}
  /\ stage' = "seq_stencil"
  /\ wrote' = {}
  /\ tally' = [tally EXCEPT !.fills = @ + 1]
  /\ UNCHANGED <<variant, ncells, nsteps, ntiles, junk, evolve, cornerLog, printed, step_in, grid_old, grid_new, time, step, dpc, units, fillTodo, ub>>

FillNext ==
  \/ \E i \in FillRange : FillRowsIter(i)
  \/ FillRowsDone
  \/ \E j \in FillRange : FillColsIter(j)
  \/ FillDone
  \/ \E i \in FillOmpRange(OmpGhostArg) : FillOmpIter(i)
  \/ FillOmpDone

FillSpec == FillInit /\ [][FillNext]_vars

\* ---- the non-tiled programs: stdpar loop, stdpar loop inside a sender, OpenMP loop ----
\* std::for_each_n(par_unseq, counting_iterator(0), ncells * ncells, f) and the
\* collapsed OpenMP loops visit every flat index of the interior
SeqInitAll(g_old) == InitRun(g_old, 0, ncells * ncells)
SeqStencilAll(g_old, g_new) == StencilRun(g_old, g_new, 0, ncells * ncells)
SeqCopyAll(g_old, g_new) == CopyRun(g_old, g_new, 0, ncells * ncells)
\* one iteration of the time loop of the stdpar program on given buffers, the
\* loops of the boundary fill taken in index order
SeqStep(g_old, g_new) ==
  LET filled == fill2Dboundaries(g_old)
      updated == SeqStencilAll(filled, g_new)
  IN  [old |-> SeqCopyAll(filled, updated), new |-> updated]
\* a whole loop has run: every worker of it has returned
SeqRan == [t \in Tiles |-> [st |-> "done", start |-> 0, size |-> ncells * ncells, runs |-> 1]]

\* (variant: the body ordered stencil, copy-back, time advance)
SeqFollow_CopyFirst(st) ==
  CASE st = "seq_stencil" -> "seq_copy"
    [] st = "seq_copy" -> "seq_time"
    [] st = "seq_time" -> "seq_step"
\* the statements of the loop body after the boundary fill, in program order:
\* stencil update, time += dt, copy-back, end of the iteration
SeqFollow(st) ==
  CASE st = "seq_stencil" -> "seq_time"
    [] st = "seq_time" -> "seq_copy"
    [] st = "seq_copy" -> "seq_step"

SeqInit ==
  /\ variant \in {"stdpar", "snd", "omp"}
  /\ printed = [initial |-> <<>>, final |-> <<>>]
  /\ ncells \in 1 .. MaxCells
  /\ ntiles \in (IF variant = "omp" THEN 1 .. MaxTiles ELSE {1})
  /\ nsteps \in 0 .. MaxSteps
  /\ junk \in [old : Garbage, new : Garbage]
  /\ grid_old = [k \in 0 .. ((ncells + nghosts) * (ncells + nghosts) - 1) |-> junk.old]
  /\ grid_new = [k \in 0 .. (ncells * ncells - 1) |-> junk.new]
  /\ step_in = [old |-> grid_old, new |-> grid_new]
  /\ time = 0
  /\ step = 0
  /\ dpc = "run"
  /\ stage = "seq_init"
  /\ units = FreshUnits
  /\ fillTodo = {}
  /\ wrote = {}
  /\ ub = FALSE
  /\ evolve = NoEvolve
  /\ cornerLog = NoCornerWrites
  /\ tally = [fills |-> 0, stencil |-> 0, copy |-> 0]

\* the initialization loop over the interior
SeqInitCells ==
  /\ stage = "seq_init"
  /\ grid_old' = SeqInitAll(grid_old)
  /\ units' = [units EXCEPT !["init"] = SeqRan]
  /\ stage' = "seq_print"
  /\ UNCHANGED <<variant, ncells, nsteps, ntiles, junk, evolve, cornerLog, tally, printed, step_in, grid_new, time, step, dpc, fillTodo, wrote, ub>>

\* printGrid(grid_old, ncells + nghosts)
SeqPrintInitial ==
  /\ stage = "seq_print"
  /\ printed' = [printed EXCEPT !.initial = PrintGrid(grid_old, ncells + nghosts)]
  /\ stage' = "seq_loop"
  /\ UNCHANGED <<variant, ncells, nsteps, ntiles, junk, evolve, cornerLog, tally, step_in, grid_old, grid_new, time, step, dpc, units, fillTodo, wrote, ub>>

\* for (auto step = 0; step < nsteps; step++): the test, then the call of the
\* boundary fill of the variant
SeqLoopTest ==
  /\ stage = "seq_loop"
  /\ IF step < nsteps
       THEN /\ stage' = (IF variant = "omp" THEN "fill_omp" ELSE "fill_rows")
            /\ fillTodo' = (IF variant = "omp" THEN FillOmpRange(OmpGhostArg) ELSE FillRange)
            /\ units' = [units EXCEPT !["stencil"] = FreshUnits["stencil"],
                                      !["copy"] = FreshUnits["copy"]]
            /\ step_in' = [old |-> grid_old, new |-> grid_new]
            /\ cornerLog' = NoCornerWrites
       ELSE /\ stage' = "seq_final"
            /\ UNCHANGED <<fillTodo, units, step_in, cornerLog>>
  /\ wrote' = {}
  /\ UNCHANGED <<variant, ncells, nsteps, ntiles, junk, evolve, tally, printed, grid_old, grid_new, time, step, dpc, ub>>

\* the stencil loop of the step
SeqStencil ==
  /\ stage = "seq_stencil"
  /\ grid_new' = SeqStencilAll(grid_old, grid_new)
  /\ units' = [units EXCEPT !["stencil"] = SeqRan]
  /\ stage' = SeqFollow("seq_stencil")
  /\ UNCHANGED <<variant, ncells, nsteps, ntiles, junk, evolve, cornerLog, tally, printed, step_in, grid_old, time, step, dpc, fillTodo, wrote, ub>>

\* time += dt
SeqTime ==
  /\ stage = "seq_time"
  /\ time' = time + 1
  /\ stage' = SeqFollow("seq_time")
  /\ UNCHANGED <<variant, ncells, nsteps, ntiles, junk, evolve, cornerLog, tally, printed, step_in, grid_old, grid_new, step, dpc, units, fillTodo, wrote, ub>>

\* the copy-back loop of the step
SeqCopy ==
  /\ stage = "seq_copy"
  /\ grid_old' = SeqCopyAll(grid_old, grid_new)
  /\ units' = [units EXCEPT !["copy"] = SeqRan]
  /\ stage' = SeqFollow("seq_copy")
  /\ UNCHANGED <<variant, ncells, nsteps, ntiles, junk, evolve, cornerLog, tally, printed, step_in, grid_new, time, step, dpc, fillTodo, wrote, ub>>

\* step++ at the end of the loop body
SeqStep_Next ==
  /\ stage = "seq_step"
  /\ step' = step + 1
  /\ stage' = "seq_loop"
  /\ UNCHANGED <<variant, ncells, nsteps, ntiles, junk, evolve, cornerLog, tally, printed, step_in, grid_old, grid_new, time, dpc, units, fillTodo, wrote, ub>>

\* printGrid(grid_new, ncells) after the loop
SeqPrintFinal ==
  /\ stage = "seq_final"
  /\ printed' = [printed EXCEPT !.final = PrintGrid(grid_new, ncells)]
  /\ stage' = "idle"
  /\ dpc' = "done"
  /\ UNCHANGED <<variant, ncells, nsteps, ntiles, junk, evolve, cornerLog, tally, step_in, grid_old, grid_new, time, step, units, fillTodo, wrote, ub>>

SeqNext ==
  \/ SeqInitCells
  \/ SeqPrintInitial
  \/ SeqLoopTest
  \/ \E i \in FillRange : FillRowsIter(i)
  \/ FillRowsDone
  \/ \E j \in FillRange : FillColsIter(j)
  \/ FillDone
  \/ \E i \in FillOmpRange(OmpGhostArg) : FillOmpIter(i)
  \/ FillOmpDone
  \/ SeqStencil
  \/ SeqTime
  \/ SeqCopy
  \/ SeqStep_Next
  \/ SeqPrintFinal

SeqSpec == SeqInit /\ [][SeqNext]_vars

\* ---- properties ----
ValidPartition == total >= ntiles /\ ntiles > 0
Base == total \div ntiles
Started(ph) == \A t \in Tiles : units[ph][t].st # "pending"
Finished(ph) == \A t \in Tiles : units[ph][t].st = "done"
old(i, j) == grid_old[OldOff(i, j)]
new(i, j) == grid_new[NewOff(i, j)]
Interior(off) == /\ (off \div len) \in 1 .. ncells
                 /\ (off % len) \in 1 .. ncells

\* C1: for total >= T > 0 the tiles computed in a bulk phase partition [0, total):
\* tile 0 starts at 0, each tile starts where the previous one ends, the last
\* one ends at total, and only the last tile may be longer than total / T.
C1_TilesPartition ==
  ValidPartition =>
    \A ph \in Phases : Started(ph) =>
      /\ units[ph][0].start = 0
      /\ \A t \in Tiles : (t + 1) \in Tiles =>
            /\ units[ph][t + 1].start = units[ph][t].start + units[ph][t].size
            /\ units[ph][t].size <= Base
      /\ units[ph][ntiles - 1].start + units[ph][ntiles - 1].size = total

\* C2: for total >= T > 0 every computed tile t has start = t * base, and length
\* base, the last tile base + total mod T.
C2_TileFormula ==
  ValidPartition =>
    \A ph \in Phases : \A t \in Tiles : units[ph][t].st # "pending" =>
      /\ units[ph][t].start = t * Base
      /\ units[ph][t].size = (IF t < ntiles - 1 THEN Base ELSE Base + (total % ntiles))

\* C3: for total >= T > 0 every flat index a tile processes in the init, stencil
\* and copy-back phases lies in [0, total), so no buffer access is out of range.
C3_IndicesInRange ==
  ValidPartition =>
    /\ ~ub
    /\ \A ph \in Phases : \A t \in Tiles : units[ph][t].st # "pending" =>
          \A pos \in units[ph][t].start .. (units[ph][t].start + units[ph][t].size - 1) :
            pos \in 0 .. (total - 1)

\* C4: the phases of a step are separated by barriers: a stencil unit has started
\* only if the boundary fill is complete, a copy-back unit has started only if
\* every stencil unit is done, and time has advanced in this step only if every
\* copy-back unit is done.
C4_PhaseBarriers ==
  /\ (\E t \in Tiles : units["stencil"][t].st # "pending") =>
        (fillTodo = {} /\ stage \notin {"fill_rows", "fill_cols"})
  /\ (\E t \in Tiles : units["copy"][t].st # "pending") => Finished("stencil")
  /\ (stage = "advance" \/ time > step) => Finished("copy")
C4_Witness ==
  /\ ntiles >= 2
  /\ stage = "copy"
  /\ \E t, u \in Tiles : units["copy"][t].st = "done" /\ units["copy"][u].st = "pending"

\* C5: the driver is blocked while a pipeline runs, and the pipeline of a step is
\* started only when the previous step's stencil and copy-back units are all done
\* and its time advance has been applied.
C5_StepsSerial ==
  /\ [](stage \notin {"idle", "complete"} => dpc \in {"wait_init", "wait_evolve"})
  /\ [][(stage' = "fill_rows" /\ stage # "fill_rows") =>
          /\ stage = "idle"
          /\ time = step
          /\ (step > 0 => (Finished("stencil") /\ Finished("copy")))]_vars
C5_Witness == step >= 1 /\ stage = "fill_rows" /\ fillTodo # FillRange

\* C6: within one parallel phase no cell of either buffer is written by two
\* different units (tiles of a bulk phase, iterations of a boundary-fill loop).
C6_WritesDisjoint ==
  ValidPartition =>
    \A a, b \in wrote : (a[1] = b[1] /\ a[2] = b[2]) => a[3] = b[3]
C6_Witness ==
  /\ ValidPartition
  /\ stage = "copy"
  /\ Finished("copy")
  /\ \E a, b \in wrote : a[3] # b[3]

\* C7: the stencil phase writes no cell of old, and the copy-back phase writes
\* only interior cells of old, never a halo cell.
C7_HaloWrittenOnlyByFill ==
  ValidPartition =>
    /\ stage = "stencil" => \A w \in wrote : w[1] # "old"
    /\ stage = "copy" => \A w \in wrote : (w[1] = "old" /\ Interior(w[2]))

\* C8: after the boundary fill every non-corner ghost cell equals its adjacent
\* interior cell, whatever the content of the buffer.
C8_EdgeReplication ==
  (stage \in {"stencil", "seq_stencil"} /\ ~(\E t \in Tiles : units["stencil"][t].st # "pending")) =>
    /\ \A c \in 1 .. ncells : old(0, c) = old(1, c) /\ old(len - 1, c) = old(len - 2, c)
    /\ \A r \in 1 .. ncells : old(r, 0) = old(r, 1) /\ old(r, len - 1) = old(r, len - 2)

\* C9: at the end of the copy-back phase the interior of old equals new.
C9_InteriorEqualsNew ==
  ValidPartition =>
    (stage = "advance" =>
       \A i, j \in 0 .. (ncells - 1) : old(i + 1, j + 1) = new(i, j))


\* C10: when the stencil phase of a step is complete, new is the buffer that the
\* same phase computes from the same old buffer with tile count 1.
C10_TileCountInvariance ==
  ValidPartition =>
    ((stage = "stencil" /\ Finished("stencil")) =>
       grid_new = StencilRun(grid_old, grid_new, TileStart(0, 1), TileSize(0, 1)))

\* the interior of a haloed buffer, as an ncells x ncells buffer
InteriorOf(g) == [k \in 0 .. (total - 1) |-> g[OldOff(1 + (k \div ncells), 1 + (k % ncells))]]

\* C11: with nsteps = 0 the grid printed at the end is the interior of old after
\* initialization and one boundary fill.
C11_ZeroStepsPrintsInitialGrid ==
  (nsteps = 0 /\ dpc = "done") =>
    printed.final = PrintGrid(InteriorOf(fill2Dboundaries(grid_old)), ncells)

\* C12: with a tile count that is <= 0 or larger than ncells * ncells the
\* program stops before the first time step: no tile unit has run, neither
\* buffer has been written and the time loop is never entered.
C12_InvalidPartitionRejected ==
  (ntiles <= 0 \/ ntiles > total) =>
    /\ \A ph \in Phases : \A t \in Tiles : units[ph][t].runs = 0
    /\ \A k \in DOMAIN grid_old : grid_old[k] = junk.old
    /\ \A k \in DOMAIN grid_new : grid_new[k] = junk.new
    /\ dpc \notin {"loop", "wait_evolve", "finalize", "done"}

\* C13: when the initialization pipeline starts on the freshly allocated
\* buffers every cell of old and new is zero, the halo cells of old are zero
\* in the printed initial grid, and new is all zero when the stencil phase of
\* the first step starts.
C13_BuffersZeroFilled ==
  /\ (stage = "init" /\ \A t \in Tiles : units["init"][t].runs = 0) =>
       /\ \A k \in DOMAIN grid_old : grid_old[k] = 0
       /\ \A k \in DOMAIN grid_new : grid_new[k] = 0
  /\ printed.initial # <<>> =>
       \A i, j \in 0 .. (len - 1) :
          ~Interior(OldOff(i, j)) => printed.initial[j + 1][i + 1] = 0
  /\ (step = 0 /\ stage = "stencil" /\ \A t \in Tiles : units["stencil"][t].runs = 0) =>
       \A k \in DOMAIN grid_new : grid_new[k] = 0

\* C14: in the stencil and the copy-back phase of every step there is one unit
\* for each tile ordinal 0 .. ntiles - 1 and no other, no unit runs twice, and
\* when the phase is reported complete every unit has run exactly once.
C14_EachTileOnce ==
  /\ \A ph \in {"stencil", "copy"} :
        /\ DOMAIN units[ph] = 0 .. (ntiles - 1)
        /\ \A t \in DOMAIN units[ph] : units[ph][t].runs <= 1
  /\ stage \in {"copy", "advance", "complete"} /\ dpc = "wait_evolve" =>
        \A t \in 0 .. (ntiles - 1) : units["stencil"][t].runs = 1
  /\ stage \in {"advance", "complete"} /\ dpc = "wait_evolve" =>
        \A t \in 0 .. (ntiles - 1) : units["copy"][t].runs = 1
C14_Witness ==
  /\ ntiles >= 2 /\ step >= 1 /\ dpc = "wait_evolve" /\ stage = "advance"
  /\ \A t \in 0 .. (ntiles - 1) : units["stencil"][t].runs = 1 /\ units["copy"][t].runs = 1

\* C15: with tile count 1, at the end of every step of the tiled pipeline old
\* and new are the buffers that one iteration of the stdpar time loop produces
\* from the buffers the step began with.
C15_TileOneMatchesStdpar ==
  (ntiles = 1 /\ dpc = "wait_evolve" /\ stage = "complete") =>
    /\ grid_old = SeqStep(step_in.old, step_in.new).old
    /\ grid_new = SeqStep(step_in.old, step_in.new).new

\* C16: in every non-tiled variant and for every thread count the boundary fill
\* of a step writes only halo cells of old: the interior of old and all of new
\* stay as they were when the step began.
C16_FillWritesOnlyHalo ==
  stage \in {"fill_rows", "fill_cols", "fill_omp"} =>
    /\ \A w \in wrote : w[1] = "old" /\ ~Interior(w[2])
    /\ \A off \in DOMAIN grid_old : Interior(off) => grid_old[off] = step_in.old[off]
    /\ grid_new = step_in.new

\* C17: on the buffers of a completed stencil phase, for every flat index pos in
\* [0, ncells * ncells) the stencil unit changes no cell of new other than
\* new(pos / ncells, pos % ncells), its five stencil points are not corner
\* cells, and the value it writes stays the same when any other cell of old,
\* or any cell of new, is changed.
C17_StencilFootprint ==
  (stage = "stencil" /\ Finished("stencil")) =>
    \A pos \in 0 .. (total - 1) :
      LET i == 1 + (pos \div ncells)
          j == 1 + (pos % ncells)
          five == {OldOff(i, j), OldOff(i + 1, j), OldOff(i - 1, j), OldOff(i, j + 1), OldOff(i, j - 1)}
          corners == {OldOff(0, 0), OldOff(0, len - 1), OldOff(len - 1, 0), OldOff(len - 1, len - 1)}
          target == NewOff(pos \div ncells, pos % ncells)
          r == StencilCell(grid_old, grid_new, pos)
      IN  /\ \A k \in DOMAIN grid_new : k # target => r[k] = grid_new[k]
          /\ five \cap corners = {}
          /\ \A off \in DOMAIN grid_old : off \notin five =>
                StencilCell([grid_old EXCEPT ![off] = @ + Dx2], grid_new, pos)[target] = r[target]
          /\ \A k \in DOMAIN grid_new :
                StencilCell(grid_old, [grid_new EXCEPT ![k] = @ + Dx2], pos)[target] = r[target]
C17_Witness ==
  /\ ncells >= 2 /\ stage = "stencil" /\ Finished("stencil")
  /\ \E t \in Tiles : units["stencil"][t].size >= 1
  /\ \E w \in wrote : w[1] = "new"

\* C18 as stated: in the non-tiled variants the time is advanced only once the
\* copy-back of the step is complete.
C18_TimeAfterCopyBack ==
  [][time' # time => Finished("copy")]_vars
\* C18 amended: in the non-tiled variants the time is advanced when the stencil
\* update of the step is complete and before its copy-back has started.
C18_TimeBetweenStencilAndCopyBack ==
  [][time' # time =>
       /\ Finished("stencil")
       /\ \A t \in Tiles : units["copy"][t].st = "pending"]_vars
C18_Witness ==
  /\ variant # "tiled" /\ stage = "seq_copy" /\ time = step + 1
  /\ Finished("stencil")
  /\ \A t \in Tiles : units["copy"][t].st = "pending"

\* C19: the buffer left by the boundary fill is the one its two loops produce
\* with their iterations taken in index order, whatever order they ran in.
C19_FillOrderIndependent ==
  (variant = "tiled" /\ stage = "stencil") => grid_old = fill2Dboundaries(step_in.old)

\* C20 as stated: time and step change only in a step of the driver, taken while
\* no pipeline is executing.
C20_ScalarsOnlyByDriver ==
  [][(time' # time \/ step' # step) =>
       /\ dpc' # dpc
       /\ stage \in {"idle", "complete"}]_vars
\* C20 amended: step changes only in a step of the driver, taken when the
\* pipeline has completed; time changes only in the last stage of the step's
\* pipeline, after every copy-back unit is done and while the driver is blocked.
C20_StepByDriverTimeByLastStage ==
  [][/\ step' # step => (dpc' # dpc /\ stage = "complete")
     /\ time' # time => (dpc' = dpc /\ dpc = "wait_evolve" /\ stage = "advance" /\ Finished("copy"))]_vars
C20_Witness ==
  /\ dpc = "wait_evolve" /\ stage = "complete" /\ time = step + 1 /\ Finished("copy")

\* C21: while the pipeline of a step executes, the object being executed was
\* constructed in that step and had not been moved from by an earlier step.
C21_PipelineFreshEachStep ==
  (variant = "tiled" /\ dpc = "wait_evolve") => (evolve.made = step /\ evolve.moves = 1)

\* C22 as stated: when a boundary fill of depth 1 has run, each of the four
\* corners was written exactly twice, both times with the same value, and holds
\* the value of the second write.
C22_CornersWrittenTwice ==
  (stage \in {"stencil", "seq_stencil"} /\ \A t \in Tiles : units["stencil"][t].st = "pending") =>
    \A c \in Corners :
      /\ Len(cornerLog[c]) = 2
      /\ cornerLog[c][1] = cornerLog[c][2]
      /\ grid_old[c] = cornerLog[c][2]
\* C22 amended: a run of fill2Dboundaries with depth 1 writes the bottom-right
\* corner twice, first the value old(len-2, len-1) had before the fill and then
\* the value of the interior cell old(len-2, len-2), which stays; it writes the
\* top-right and the bottom-left corner once and never the top-left one. A run
\* of fill2Dboundaries_omp with depth 1 writes no corner.
C22_CornerWriteCounts ==
  (stage \in {"stencil", "seq_stencil"} /\ \A t \in Tiles : units["stencil"][t].st = "pending") =>
    /\ variant = "omp" =>
         \A c \in Corners : cornerLog[c] = <<>> /\ grid_old[c] = step_in.old[c]
    /\ variant # "omp" =>
         /\ Len(cornerLog[OldOff(len - 1, len - 1)]) = 2
         /\ cornerLog[OldOff(len - 1, len - 1)][1] = step_in.old[OldOff(len - 2, len - 1)]
         /\ cornerLog[OldOff(len - 1, len - 1)][2] = step_in.old[OldOff(len - 2, len - 2)]
         /\ grid_old[OldOff(len - 1, len - 1)] = cornerLog[OldOff(len - 1, len - 1)][2]
         /\ Len(cornerLog[OldOff(0, len - 1)]) = 1
         /\ Len(cornerLog[OldOff(len - 1, 0)]) = 1
         /\ cornerLog[OldOff(0, 0)] = <<>>
         /\ grid_old[OldOff(0, 0)] = step_in.old[OldOff(0, 0)]
C22_Witness ==
  /\ variant = "tiled" /\ stage = "stencil"
  /\ Len(cornerLog[OldOff(len - 1, len - 1)]) = 2
  /\ cornerLog[OldOff(len - 1, len - 1)][1] # cornerLog[OldOff(len - 1, len - 1)][2]

\* C23: with ncells * ncells >= ntiles > 0 the tiled run reaches its end, and at
\* the end, the final grid printed, it has executed nsteps steps: nsteps
\* boundary fills, nsteps * ntiles stencil units, nsteps * ntiles copy-back
\* units and nsteps time advances.
C23_TerminatesAfterNsteps ==
  /\ ValidPartition => <>(dpc = "done")
  /\ [](dpc = "done" =>
          /\ printed.final # <<>>
          /\ step = nsteps
          /\ time = nsteps
          /\ tally = [fills |-> nsteps, stencil |-> nsteps * ntiles, copy |-> nsteps * ntiles])

====
